---- MODULE Spec2Model ----
(***************************************************************************)
(* Model of the C glue of the keyboard firmware (zbbq / jolt):             *)
(*   - the USB HID output gate (usb.c): usb_sem, in_ready_cb,              *)
(*     is_hid_accepting, hid_report;                                       *)
(*   - the bounded event queue built on the mutex / condvar wrappers       *)
(*     (wrappers.c);                                                       *)
(*   - the critical section z_crit_acquire / z_crit_release (wrappers.c).  *)
(***************************************************************************)
EXTENDS Integers, Sequences, FiniteSets, TLC

(***************************************************************************)
(* Bounds of the model.                                                    *)
(***************************************************************************)
NumSenders == 2

WriteCap == 2

MaxCap == 4

MaxPush == 5

CritRounds == 2

MaxCounter0 == 2
MaxStatusLog == 3     \* rust_usb_status calls followed
MaxTime == 14         \* milliseconds of heartbeat time followed
MaxByte == 1          \* bytes on the inter-board link are 0..MaxByte
RxCap == 2            \* depth of the uart's receive FIFO
TxCap == 2            \* depth of the uart's transmit FIFO
MaxArrive == 3        \* received bytes traced
NumPixels == 2        \* pixels of an LED frame
MaxFrames == 2        \* LED frames followed
AcmCap == 2           \* depth of a CDC ACM transmit FIFO
MaxAcmLen == 2        \* longest buffer handed to acm_write

Senders == 1..NumSenders

Contexts == {"thread", "isr"}

(***************************************************************************)
(* usb.c: K_SEM_DEFINE(usb_sem, 1, 1)                                      *)
(***************************************************************************)
K_SEM_LIMIT == 1

\* Variant of the definition of usb_sem that starts one permit short of the
\* limit.
K_SEM_INITIAL_zero == K_SEM_LIMIT - 1

K_SEM_INITIAL == 1

VARIABLES
    usb_sem,      \* count of usb_sem
    sem_wait,     \* threads pended in k_sem_take(&usb_sem, K_FOREVER), in order
    hid_pc,       \* position of each sender thread inside hid_report
    hid_busy,     \* 1 while the HID IN endpoint holds a report not yet completed
    halted,       \* TRUE once k_panic / a kernel assertion stopped the device
    cfg_assert,   \* build option: kernel assertions (__ASSERT) compiled in
    hid0_dev,     \* the HID device as usb_setup left it: "ready", or "NULL" (no
                  \* binding), "unregistered" (a CDC ACM device was not ready),
                  \* "disabled" (usb_enable failed)
    hid_poll,     \* value is_hid_accepting last returned to each sender (-1: none since its last hid_report)
    extra_cb,     \* history: in_ready_cb ran with no report in flight
    overlap,      \* history: hid_int_ep_write was called while a report was in flight
    gate_hist,    \* history: what happened since the last return of hid_report
    hid_writes,   \* history: number of hid_int_ep_write calls, saturating at WriteCap
    hid_last      \* history: the last gate operation, its context, the count before it,
                  \* the sender it woke, the caller's last poll result

gate_vars == <<usb_sem, sem_wait, hid_pc, hid_busy, halted, cfg_assert, hid0_dev,
               hid_poll, extra_cb, overlap, gate_hist, hid_writes, hid_last>>

VARIABLES
    q_cap,        \* capacity of the queue
    q_buf,        \* ring buffer storage, slots 0 .. q_cap-1
    q_head,       \* index of the oldest item
    q_tail,       \* index of the next free slot
    q_count,      \* number of items stored
    mtx_owner,    \* k_mutex: owning thread, or "none"
    mtx_wait,     \* k_mutex: threads pended in k_mutex_lock, in order
    cv_wait,      \* k_condvar: threads pended in k_condvar_wait, in order
    q_pc,         \* position of the producer and of the consumer
    q_cont,       \* where a thread pended on the mutex continues once it owns it
    q_ret,        \* value returned by the thread's last k_condvar_wait
    q_item,       \* producer: item being pushed; consumer: item copied out
    q_tmp,        \* the count each thread read under the lock
    q_result,     \* result of the thread's last push / pop_blocking
    q_attempted,  \* history: every item passed to push
    q_pushed,     \* history: items stored by push
    q_popped,     \* history: items removed by pop_blocking
    q_full,       \* history: number of pushes that returned Full
    q_snap,       \* history: queue contents when the current push found it full
    pop_base,     \* history: number of items removed when the current pop_blocking was called
    q_last        \* history: the last queue step

queue_vars == <<q_cap, q_buf, q_head, q_tail, q_count, mtx_owner, mtx_wait,
                cv_wait, q_pc, q_cont, q_ret, q_item, q_tmp, q_result,
                q_attempted, q_pushed, q_popped, q_full, q_snap, pop_base,
                q_last>>

VARIABLES
    irq_locked,   \* interrupts are masked on the core (the state k_spin_lock saves and sets)
    irq_pending,  \* an interrupt was raised and its handler has not started yet
    isr_active,   \* the interrupt handler is running (the thread is preempted)
    irq_fired,    \* history: number of interrupts raised
    irq_deferred, \* history: an interrupt was raised while interrupts were masked
    crit_pc,      \* position of the thread and of the interrupt handler
    crit_token,   \* the token z_crit_acquire returned to each context
    crit_tmp,     \* the counter value each context read inside the section
    crit_done,    \* history: increments completed by each context
    counter,      \* the shared counter
    counter0      \* history: initial value of the counter

crit_vars == <<irq_locked, irq_pending, isr_active, irq_fired, irq_deferred,
               crit_pc, crit_token, crit_tmp, crit_done, counter, counter0>>

(***************************************************************************)
(* USB status forwarding: status_cb in usb.c.                              *)
(***************************************************************************)
VARIABLES
    st_halted,    \* k_panic() was reached from status_cb
    st_calls,     \* arguments of the rust_usb_status calls of the last status_cb
    st_log,       \* arguments of all rust_usb_status calls so far
    st_event      \* history: the last status event, its context, st_log before it

status_vars == <<st_halted, st_calls, st_log, st_event>>

(***************************************************************************)
(* The heartbeat timer: heartbeat.c.  Time is counted in milliseconds.     *)
(***************************************************************************)
VARIABLES
    hb_now,       \* the current time
    hb_fn,        \* expiry function of heartbeat_timer ("none" before k_timer_init)
    hb_running,   \* heartbeat_timer has been started
    hb_next,      \* time of the next expiry of heartbeat_timer
    hb_period,    \* period of heartbeat_timer
    hb_calls,     \* number of rust_heartbeat calls so far
    hb_expiries,  \* history: number of expiries of heartbeat_timer so far
    hb_setup_at,  \* history: time of setup_heartbeat
    hb_last       \* history: time of the last rust_heartbeat call

hb_vars == <<hb_now, hb_fn, hb_running, hb_next, hb_period, hb_calls,
             hb_expiries, hb_setup_at, hb_last>>

(***************************************************************************)
(* The inter-board link: uart.c.                                           *)
(***************************************************************************)
VARIABLES
    link_present,   \* build choice: DT_HAS_CHOSEN(inter_board_uart)
    rx_fifo,        \* receive FIFO of the uart device, oldest byte first
    tx_fifo,        \* transmit FIFO of the uart device, oldest byte first
    irq_rx_en,      \* receive interrupt source of the uart enabled
    irq_tx_en,      \* transmit interrupt source of the uart enabled
    uart_pc,        \* "idle", or "drain" while inter_uart_setup is in its loop
    p_char,         \* the byte the caller of inter_uart_poll_in passes by pointer
    uart_quiet,     \* history: inter_uart_setup has returned and nothing was
                    \* received or polled since
    uart_discarded, \* history: bytes discarded by the last inter_uart_setup,
                    \* counted up to RxCap
    rx_trace,       \* history switch: received bytes are being traced
    rx_in,          \* history: the bytes that entered the receive FIFO, in order
    rx_taken,       \* history: the bytes taken out of the receive FIFO, in
                    \* order, each with the function that took it
    uart_last       \* history: the last call, its result (0 for a void function),
                    \* whether it stored to *p_char, uart_quiet and the length
                    \* of the transmit FIFO before it

uart_vars == <<link_present, rx_fifo, tx_fifo, irq_rx_en, irq_tx_en, uart_pc,
               p_char, uart_quiet, uart_discarded, rx_trace, rx_in, rx_taken,
               uart_last>>

(***************************************************************************)
(* The worker threads under the scheduler, and the LED strip update of     *)
(* leds.c.                                                                 *)
(***************************************************************************)
VARIABLES
    sched_cur,      \* the thread that owns the processor, or "idle"
    sched_ready,    \* the threads that are ready but not running
    sched_isr,      \* an interrupt handler is running
    led_pc,         \* "idle", or "render" inside sys_led_strip_update_rgb
    led_left,       \* pixels of the frame still to be sent
    led_frames,     \* history: frames rendered so far
    led_intruded,   \* history: a preemptible thread ran during the current frame
    led_isr_seen    \* history: an interrupt handler ran during the current frame

led_vars == <<sched_cur, sched_ready, sched_isr, led_pc, led_left, led_frames,
              led_intruded, led_isr_seen>>

\* CDC ACM serial ports (usb.c, cdc_dev[] and acm_write).
VARIABLES
    acm_line,     \* per port: what uart_line_ctrl_get(DTR) answers, [res, ctrl]
    acm_fifo,     \* per port: bytes in the driver's transmit FIFO, oldest first
    acm_irq_tx,   \* per port: transmit interrupt enabled
    acm_last      \* the last acm_write or acm_has_dtr: the driver calls it made and their results

acm_vars == <<acm_line, acm_fifo, acm_irq_tx, acm_last>>

vars == <<gate_vars, queue_vars, crit_vars, status_vars, hb_vars, uart_vars, led_vars, acm_vars>>

\* What the operations of one component leave alone.
GateOnly == UNCHANGED <<queue_vars, crit_vars, status_vars, hb_vars, uart_vars, led_vars, acm_vars>>

QueueOnly == UNCHANGED <<gate_vars, crit_vars, status_vars, hb_vars, uart_vars, led_vars, acm_vars>>

CritOnly == UNCHANGED <<gate_vars, queue_vars, status_vars, hb_vars, uart_vars, led_vars, acm_vars>>

StatusOnly == UNCHANGED <<gate_vars, queue_vars, crit_vars, hb_vars, uart_vars, led_vars, acm_vars>>

HbOnly == UNCHANGED <<gate_vars, queue_vars, crit_vars, status_vars, uart_vars, led_vars, acm_vars>>

UartOnly == UNCHANGED <<gate_vars, queue_vars, crit_vars, status_vars, hb_vars, led_vars, acm_vars>>

LedOnly == UNCHANGED <<gate_vars, queue_vars, crit_vars, status_vars, hb_vars, uart_vars, acm_vars>>

AcmOnly == UNCHANGED <<gate_vars, queue_vars, crit_vars, status_vars, hb_vars, uart_vars, led_vars>>

(***************************************************************************)
(* Zephyr primitives as used by usb.c.                                     *)
(***************************************************************************)
k_is_in_isr(ctx) == ctx = "isr"

\* Variant of NO_ISR with the test inverted.
NO_ISR_inverted(ctx) == IF k_is_in_isr(ctx) THEN "ok" ELSE "panic"

\* NO_ISR(): k_panic() when running in interrupt context.
NO_ISR(ctx) == IF k_is_in_isr(ctx) THEN "panic" ELSE "ok"

Min(a, b) == IF a < b THEN a ELSE b

\* Variant of k_sem_give that ignores the limit of the semaphore.
k_sem_give_unbounded ==
    IF sem_wait # <<>>
    THEN /\ hid_pc' = [hid_pc EXCEPT ![Head(sem_wait)] = "write"]
         /\ sem_wait' = Tail(sem_wait)
         /\ usb_sem' = usb_sem
    ELSE /\ usb_sem' = usb_sem + 1
         /\ UNCHANGED <<hid_pc, sem_wait>>

\* Variant of k_sem_give that wakes a pended thread but never raises the count.
k_sem_give_lossy ==
    IF sem_wait # <<>>
    THEN /\ hid_pc' = [hid_pc EXCEPT ![Head(sem_wait)] = "write"]
         /\ sem_wait' = Tail(sem_wait)
         /\ usb_sem' = usb_sem
    ELSE UNCHANGED <<usb_sem, hid_pc, sem_wait>>

\* k_sem_give(&usb_sem): a pended thread, if any, is handed the permit and
\* made ready; otherwise the count is raised up to the limit.
k_sem_give ==
    IF sem_wait # <<>>
    THEN /\ hid_pc' = [hid_pc EXCEPT ![Head(sem_wait)] = "write"]
         /\ sem_wait' = Tail(sem_wait)
         /\ usb_sem' = usb_sem
    ELSE /\ usb_sem' = Min(usb_sem + 1, K_SEM_LIMIT)
         /\ UNCHANGED <<hid_pc, sem_wait>>

\* Variant of k_sem_take that returns at once when there is no permit.
k_sem_take_nowait(t) ==
    /\ usb_sem' = IF usb_sem > 0 THEN usb_sem - 1 ELSE usb_sem
    /\ hid_pc' = [hid_pc EXCEPT ![t] = "write"]
    /\ sem_wait' = sem_wait

\* k_sem_take(&usb_sem, K_FOREVER) by thread t: take the permit or pend.
k_sem_take(t) ==
    IF usb_sem > 0
    THEN /\ usb_sem' = usb_sem - 1
         /\ hid_pc' = [hid_pc EXCEPT ![t] = "write"]
         /\ sem_wait' = sem_wait
    ELSE /\ usb_sem' = usb_sem
         /\ hid_pc' = [hid_pc EXCEPT ![t] = "pend"]
         /\ sem_wait' = Append(sem_wait, t)

\* hid_int_ep_write(hid0_dev, report, 8, NULL): the endpoint accepts the
\* report (one completion will follow) or rejects it; the result is ignored.
HidWriteOutcomes == IF hid0_dev = "ready" THEN BOOLEAN ELSE {FALSE}

\* hid_int_ep_write on the NULL device is undefined: the call may fault.
HidWriteFaults == IF hid0_dev = "NULL" THEN BOOLEAN ELSE {FALSE}

hid_int_ep_write(accepted) ==
    /\ overlap' = (overlap \/ hid_busy = 1)
    /\ hid_writes' = Min(hid_writes + 1, WriteCap)
    /\ hid_busy' = IF accepted THEN 1 ELSE hid_busy

(***************************************************************************)
(* usb.c operations.                                                       *)
(***************************************************************************)
\* Variant of in_ready_cb that also writes a report to the HID device.
in_ready_cb_resend(ctx) ==
    /\ ~halted
    /\ hid_busy' = 0
    /\ extra_cb' = (extra_cb \/ hid_busy = 0)
    /\ hid_last' = [op |-> "in_ready_cb", ctx |-> ctx, pre |-> usb_sem,
                    woke |-> IF sem_wait # <<>> /\ NO_ISR(ctx) = "ok"
                             THEN Head(sem_wait) ELSE 0,
                    polled |-> -1]
    /\ IF NO_ISR(ctx) = "panic"
       THEN /\ halted' = TRUE
            /\ UNCHANGED <<usb_sem, sem_wait, hid_pc, gate_hist>>
       ELSE /\ k_sem_give
            /\ halted' = halted
            /\ gate_hist' = CASE gate_hist = "none" -> "none"
                              [] gate_hist = "returned" ->
                                   IF sem_wait # <<>> THEN "handoff" ELSE "released"
                              [] OTHER -> "later"
    /\ hid_writes' = Min(hid_writes + 1, WriteCap)
    /\ UNCHANGED <<cfg_assert, hid0_dev, hid_poll, overlap>>
    /\ GateOnly

\* static void in_ready_cb(const struct device *dev), called by the USB
\* stack in context ctx.
in_ready_cb(ctx) ==
    /\ ~halted
    /\ hid_busy' = 0
    /\ extra_cb' = (extra_cb \/ hid_busy = 0)
    /\ hid_last' = [op |-> "in_ready_cb", ctx |-> ctx, pre |-> usb_sem,
                    woke |-> IF sem_wait # <<>> /\ NO_ISR(ctx) = "ok"
                             THEN Head(sem_wait) ELSE 0,
                    polled |-> -1]
    /\ IF NO_ISR(ctx) = "panic"
       THEN /\ halted' = TRUE
            /\ UNCHANGED <<usb_sem, sem_wait, hid_pc, gate_hist>>
       ELSE /\ k_sem_give
            /\ halted' = halted
            /\ gate_hist' = CASE gate_hist = "none" -> "none"
                              [] gate_hist = "returned" ->
                                   IF sem_wait # <<>> THEN "handoff" ELSE "released"
                              [] OTHER -> "later"
    /\ UNCHANGED <<cfg_assert, hid0_dev, hid_poll, overlap, hid_writes>>
    /\ GateOnly

\* Variant of is_hid_accepting that compares with >= instead of >.
is_hid_accepting_nonneg == IF usb_sem >= 0 THEN 1 ELSE 0

\* int is_hid_accepting(void), called by sender t.
is_hid_accepting == IF usb_sem > 0 THEN 1 ELSE 0

IsHidAccepting(t) ==
    /\ ~halted
    /\ hid_pc[t] = "idle"
    /\ hid_poll' = [hid_poll EXCEPT ![t] = is_hid_accepting]
    /\ hid_last' = [op |-> "is_hid_accepting", ctx |-> "thread", pre |-> usb_sem, woke |-> 0, polled |-> -1]
    /\ UNCHANGED <<usb_sem, sem_wait, hid_pc, hid_busy, halted, cfg_assert, hid0_dev,
                   extra_cb, overlap, gate_hist, hid_writes>>
    /\ GateOnly

\* void hid_report(uint8_t *report) called by sender thread t: the
\* k_sem_take(&usb_sem, K_FOREVER) of line 53.
hid_report_take(t) ==
    /\ ~halted
    /\ hid_pc[t] = "idle"
    /\ k_sem_take(t)
    /\ gate_hist' = IF usb_sem > 0 /\ gate_hist # "none" THEN "later" ELSE gate_hist
    /\ hid_last' = [op |-> "hid_report_take", ctx |-> "thread", pre |-> usb_sem,
                    woke |-> 0, polled |-> hid_poll[t]]
    /\ hid_poll' = [hid_poll EXCEPT ![t] = -1]
    /\ UNCHANGED <<hid_busy, halted, cfg_assert, hid0_dev, extra_cb, overlap, hid_writes>>
    /\ GateOnly

\* Variant of the write step of hid_report that looks at the result of
\* hid_int_ep_write and gives the permit back when the write was rejected.
hid_report_write_release(t) ==
    /\ ~halted
    /\ hid_pc[t] = "write"
    /\ \E accepted \in HidWriteOutcomes :
          /\ hid_int_ep_write(accepted)
          /\ usb_sem' = IF accepted THEN usb_sem ELSE Min(usb_sem + 1, K_SEM_LIMIT)
    /\ \E fault \in HidWriteFaults : halted' = fault
    /\ hid_pc' = [hid_pc EXCEPT ![t] = "idle"]
    /\ gate_hist' = "returned"
    /\ hid_last' = [op |-> "hid_report_write", ctx |-> "thread", pre |-> usb_sem, woke |-> 0, polled |-> -1]
    /\ UNCHANGED <<sem_wait, cfg_assert, hid0_dev, hid_poll, extra_cb>>
    /\ GateOnly

\* hid_report, line 54: hid_int_ep_write and return.
hid_report_write(t) ==
    /\ ~halted
    /\ hid_pc[t] = "write"
    /\ \E accepted \in HidWriteOutcomes : hid_int_ep_write(accepted)
    /\ \E fault \in HidWriteFaults : halted' = fault
    /\ hid_pc' = [hid_pc EXCEPT ![t] = "idle"]
    /\ gate_hist' = "returned"
    /\ hid_last' = [op |-> "hid_report_write", ctx |-> "thread", pre |-> usb_sem, woke |-> 0, polled |-> -1]
    /\ UNCHANGED <<usb_sem, sem_wait, cfg_assert, hid0_dev, hid_poll, extra_cb>>
    /\ GateOnly

\* hid_report called from an interrupt handler.  hid_report has no context
\* check of its own.  k_sem_take with K_FOREVER in an ISR fails the kernel's
\* assertion when assertions are compiled in; otherwise it takes the permit
\* if there is one (and the write follows), and cannot pend when there is
\* none: the device stops.
hid_report_isr ==
    /\ ~halted
    /\ hid_last' = [op |-> "hid_report", ctx |-> "isr", pre |-> usb_sem, woke |-> 0, polled |-> -1]
    /\ IF cfg_assert \/ usb_sem = 0
       THEN /\ halted' = TRUE
            /\ UNCHANGED <<usb_sem, hid_busy, overlap, gate_hist, hid_writes>>
       ELSE /\ usb_sem' = usb_sem - 1
            /\ \E accepted \in HidWriteOutcomes : hid_int_ep_write(accepted)
            /\ gate_hist' = "returned"
            /\ \E fault \in HidWriteFaults : halted' = fault
    /\ UNCHANGED <<sem_wait, hid_pc, cfg_assert, hid0_dev, hid_poll, extra_cb>>
    /\ GateOnly

(***************************************************************************)
(* Bounded event queue.  The ring buffer and its push / pop_blocking live  *)
(* in the Rust part of the firmware; the locking they are built on is      *)
(* wrappers.c: sys_mutex_lock, sys_mutex_unlock, sys_condvar_signal,       *)
(* sys_condvar_wait.                                                       *)
(***************************************************************************)
Producer == "producer"

Consumer == "consumer"

QThreads == {Producer, Consumer}

EAGAIN == 11

\* The keys of the scan events: (row, col, pressed).
Keys == { [row |-> 0, col |-> 0, pressed |-> TRUE],
          [row |-> 1, col |-> 2, pressed |-> FALSE] }

ScanEvent(k, ts) == [row |-> k.row, col |-> k.col, pressed |-> k.pressed, timestamp |-> ts]

NoEvent == [row |-> 0, col |-> 0, pressed |-> FALSE, timestamp |-> 0]

\* Variant of sys_mutex_lock that returns at once even when another thread
\* owns the mutex.
sys_mutex_lock_nonexclusive(t, next) ==
    /\ mtx_owner' = t
    /\ q_pc' = [q_pc EXCEPT ![t] = next]
    /\ UNCHANGED <<mtx_wait, q_cont>>

\* int sys_mutex_lock(mutex, K_FOREVER) by thread t, which continues at
\* `next` once it owns the mutex.
sys_mutex_lock(t, next) ==
    IF mtx_owner = "none"
    THEN /\ mtx_owner' = t
         /\ q_pc' = [q_pc EXCEPT ![t] = next]
         /\ UNCHANGED <<mtx_wait, q_cont>>
    ELSE /\ mtx_wait' = Append(mtx_wait, t)
         /\ q_pc' = [q_pc EXCEPT ![t] = "mtxwait"]
         /\ q_cont' = [q_cont EXCEPT ![t] = next]
         /\ UNCHANGED mtx_owner

\* int sys_mutex_unlock(mutex) by thread t, which continues at `next`: the
\* mutex passes to the first pended thread, if any.
sys_mutex_unlock(t, next) ==
    IF mtx_owner # t
    THEN /\ q_pc' = [q_pc EXCEPT ![t] = next]
         /\ UNCHANGED <<mtx_owner, mtx_wait>>
    ELSE IF mtx_wait = <<>>
         THEN /\ mtx_owner' = "none"
              /\ q_pc' = [q_pc EXCEPT ![t] = next]
              /\ UNCHANGED mtx_wait
         ELSE /\ mtx_owner' = Head(mtx_wait)
              /\ mtx_wait' = Tail(mtx_wait)
              /\ q_pc' = [q_pc EXCEPT ![t] = next,
                                      ![Head(mtx_wait)] = q_cont[Head(mtx_wait)]]

\* Variant of sys_condvar_signal that wakes nobody.
sys_condvar_signal_noop(t, next) ==
    /\ q_pc' = [q_pc EXCEPT ![t] = next]
    /\ UNCHANGED <<cv_wait, q_ret>>

\* int sys_condvar_signal(condvar) by thread t, which continues at `next`:
\* the first waiter, if any, is made ready with return value 0 and goes on to
\* take the mutex again.
sys_condvar_signal(t, next) ==
    IF cv_wait = <<>>
    THEN /\ q_pc' = [q_pc EXCEPT ![t] = next]
         /\ UNCHANGED <<cv_wait, q_ret>>
    ELSE /\ cv_wait' = Tail(cv_wait)
         /\ q_ret' = [q_ret EXCEPT ![Head(cv_wait)] = 0]
         /\ q_pc' = [q_pc EXCEPT ![t] = next, ![Head(cv_wait)] = "relock"]

\* int sys_condvar_wait(condvar, mutex, timeout) by thread t, first half:
\* release the mutex and pend on the condition variable, atomically.
sys_condvar_wait(t) ==
    /\ cv_wait' = Append(cv_wait, t)
    /\ IF mtx_wait = <<>>
       THEN /\ mtx_owner' = "none"
            /\ q_pc' = [q_pc EXCEPT ![t] = "cvwait"]
            /\ UNCHANGED mtx_wait
       ELSE /\ mtx_owner' = Head(mtx_wait)
            /\ mtx_wait' = Tail(mtx_wait)
            /\ q_pc' = [q_pc EXCEPT ![t] = "cvwait",
                                    ![Head(mtx_wait)] = q_cont[Head(mtx_wait)]]

\* The items stored, oldest first.
Contents == [i \in 1..q_count |-> q_buf[(q_head + i - 1) % q_cap]]

Snapshot == <<q_buf, q_head, q_tail, q_count>>

NoSnapshot == <<q_buf, q_head, q_tail, -1>>

QHist(step) == q_last' = step

\* push(item), called by the producer.
PushCall ==
    /\ q_pc[Producer] = "idle"
    /\ Len(q_attempted) < MaxPush
    /\ \E k \in Keys :
         LET e == ScanEvent(k, Len(q_attempted) + 1) IN
         /\ q_item' = [q_item EXCEPT ![Producer] = e]
         /\ q_attempted' = Append(q_attempted, e)
    /\ q_pc' = [q_pc EXCEPT ![Producer] = "lock"]
    /\ QHist("PushCall")
    /\ UNCHANGED <<q_cap, q_buf, q_head, q_tail, q_count, mtx_owner, mtx_wait,
                   cv_wait, q_cont, q_ret, q_tmp, q_result, q_pushed, q_popped,
                   q_full, q_snap, pop_base>>
    /\ QueueOnly

PushLock ==
    /\ q_pc[Producer] = "lock"
    /\ sys_mutex_lock(Producer, "check")
    /\ QHist("PushLock")
    /\ UNCHANGED <<q_cap, q_buf, q_head, q_tail, q_count, cv_wait, q_ret,
                   q_item, q_tmp, q_result, q_attempted, q_pushed, q_popped,
                   q_full, q_snap, pop_base>>
    /\ QueueOnly

\* Full: nothing is stored, the lock is released and Full is returned.
PushCheck ==
    /\ q_pc[Producer] = "check"
    /\ q_tmp' = [q_tmp EXCEPT ![Producer] = q_count]
    /\ IF q_count = q_cap
       THEN /\ q_result' = [q_result EXCEPT ![Producer] = [tag |-> "Full", ev |-> NoEvent]]
            /\ q_full' = q_full + 1
            /\ q_snap' = Snapshot
            /\ q_pc' = [q_pc EXCEPT ![Producer] = "unlock"]
       ELSE /\ q_pc' = [q_pc EXCEPT ![Producer] = "store"]
            /\ q_snap' = NoSnapshot
            /\ UNCHANGED <<q_result, q_full>>
    /\ QHist("PushCheck")
    /\ UNCHANGED <<q_cap, q_buf, q_head, q_tail, q_count, mtx_owner, mtx_wait,
                   cv_wait, q_cont, q_ret, q_item, q_attempted, q_pushed, q_popped,
                   pop_base>>
    /\ QueueOnly

PushStore ==
    /\ q_pc[Producer] = "store"
    /\ q_buf' = [q_buf EXCEPT ![q_tail] = q_item[Producer]]
    /\ q_tail' = (q_tail + 1) % q_cap
    /\ q_pc' = [q_pc EXCEPT ![Producer] = "inc"]
    /\ QHist("PushStore")
    /\ UNCHANGED <<q_cap, q_head, q_count, mtx_owner, mtx_wait, cv_wait, q_cont,
                   q_ret, q_item, q_tmp, q_result, q_attempted, q_pushed,
                   q_popped, q_full, q_snap, pop_base>>
    /\ QueueOnly

PushInc ==
    /\ q_pc[Producer] = "inc"
    /\ q_count' = q_tmp[Producer] + 1
    /\ q_pushed' = Append(q_pushed, q_item[Producer])
    /\ q_result' = [q_result EXCEPT ![Producer] = [tag |-> "Ok", ev |-> NoEvent]]
    /\ q_pc' = [q_pc EXCEPT ![Producer] = "signal"]
    /\ QHist("PushInc")
    /\ UNCHANGED <<q_cap, q_buf, q_head, q_tail, mtx_owner, mtx_wait, cv_wait,
                   q_cont, q_ret, q_item, q_tmp, q_attempted, q_popped, q_full,
                   q_snap, pop_base>>
    /\ QueueOnly

PushSignal ==
    /\ q_pc[Producer] = "signal"
    /\ sys_condvar_signal(Producer, "unlock")
    /\ QHist("PushSignal")
    /\ UNCHANGED <<q_cap, q_buf, q_head, q_tail, q_count, mtx_owner, mtx_wait,
                   q_cont, q_item, q_tmp, q_result, q_attempted, q_pushed,
                   q_popped, q_full, q_snap, pop_base>>
    /\ QueueOnly

PushUnlock ==
    /\ q_pc[Producer] = "unlock"
    /\ sys_mutex_unlock(Producer, "idle")
    /\ QHist("PushUnlock")
    /\ UNCHANGED <<q_cap, q_buf, q_head, q_tail, q_count, cv_wait, q_cont, q_ret,
                   q_item, q_tmp, q_result, q_attempted, q_pushed, q_popped,
                   q_full, q_snap, pop_base>>
    /\ QueueOnly

\* pop_blocking(timeout), called by the consumer.
PopCall ==
    /\ q_pc[Consumer] = "idle"
    /\ q_pc' = [q_pc EXCEPT ![Consumer] = "lock"]
    /\ pop_base' = Len(q_popped)
    /\ QHist("PopCall")
    /\ UNCHANGED <<q_cap, q_buf, q_head, q_tail, q_count, mtx_owner, mtx_wait,
                   cv_wait, q_cont, q_ret, q_item, q_tmp, q_result, q_attempted,
                   q_pushed, q_popped, q_full, q_snap>>
    /\ QueueOnly

PopLock ==
    /\ q_pc[Consumer] = "lock"
    /\ sys_mutex_lock(Consumer, "check")
    /\ QHist("PopLock")
    /\ UNCHANGED <<q_cap, q_buf, q_head, q_tail, q_count, cv_wait, q_ret,
                   q_item, q_tmp, q_result, q_attempted, q_pushed, q_popped,
                   q_full, q_snap, pop_base>>
    /\ QueueOnly

\* Empty: wait on the condition variable; otherwise take the oldest item.
PopCheck ==
    /\ q_pc[Consumer] = "check"
    /\ q_tmp' = [q_tmp EXCEPT ![Consumer] = q_count]
    /\ q_pc' = [q_pc EXCEPT ![Consumer] = IF q_count = 0 THEN "wait" ELSE "load"]
    /\ QHist("PopCheck")
    /\ UNCHANGED <<q_cap, q_buf, q_head, q_tail, q_count, mtx_owner, mtx_wait,
                   cv_wait, q_cont, q_ret, q_item, q_result, q_attempted,
                   q_pushed, q_popped, q_full, q_snap, pop_base>>
    /\ QueueOnly

PopWait ==
    /\ q_pc[Consumer] = "wait"
    /\ sys_condvar_wait(Consumer)
    /\ QHist("PopWait")
    /\ UNCHANGED <<q_cap, q_buf, q_head, q_tail, q_count, q_cont, q_ret, q_item,
                   q_tmp, q_result, q_attempted, q_pushed, q_popped, q_full,
                   q_snap, pop_base>>
    /\ QueueOnly

\* The timeout of k_condvar_wait expires: the waiter is made ready with
\* return value -EAGAIN.
PopTimeout ==
    /\ q_pc[Consumer] = "cvwait"
    /\ cv_wait' = SelectSeq(cv_wait, LAMBDA x : x # Consumer)
    /\ q_ret' = [q_ret EXCEPT ![Consumer] = -EAGAIN]
    /\ q_pc' = [q_pc EXCEPT ![Consumer] = "relock"]
    /\ QHist("PopTimeout")
    /\ UNCHANGED <<q_cap, q_buf, q_head, q_tail, q_count, mtx_owner, mtx_wait,
                   q_cont, q_item, q_tmp, q_result, q_attempted, q_pushed,
                   q_popped, q_full, q_snap, pop_base>>
    /\ QueueOnly

\* sys_condvar_wait, second half: take the mutex again before returning.
PopRelock ==
    /\ q_pc[Consumer] = "relock"
    /\ sys_mutex_lock(Consumer, "waited")
    /\ QHist("PopRelock")
    /\ UNCHANGED <<q_cap, q_buf, q_head, q_tail, q_count, cv_wait, q_ret,
                   q_item, q_tmp, q_result, q_attempted, q_pushed, q_popped,
                   q_full, q_snap, pop_base>>
    /\ QueueOnly

\* sys_condvar_wait returned: Timeout when it timed out, else look again.
PopWaited ==
    /\ q_pc[Consumer] = "waited"
    /\ IF q_ret[Consumer] = -EAGAIN
       THEN /\ q_result' = [q_result EXCEPT ![Consumer] = [tag |-> "Timeout", ev |-> NoEvent]]
            /\ q_pc' = [q_pc EXCEPT ![Consumer] = "unlock"]
       ELSE /\ q_pc' = [q_pc EXCEPT ![Consumer] = "check"]
            /\ UNCHANGED q_result
    /\ QHist("PopWaited")
    /\ UNCHANGED <<q_cap, q_buf, q_head, q_tail, q_count, mtx_owner, mtx_wait,
                   cv_wait, q_cont, q_ret, q_item, q_tmp, q_attempted, q_pushed,
                   q_popped, q_full, q_snap, pop_base>>
    /\ QueueOnly

PopLoad ==
    /\ q_pc[Consumer] = "load"
    /\ q_item' = [q_item EXCEPT ![Consumer] = q_buf[q_head]]
    /\ q_head' = (q_head + 1) % q_cap
    /\ q_pc' = [q_pc EXCEPT ![Consumer] = "dec"]
    /\ QHist("PopLoad")
    /\ UNCHANGED <<q_cap, q_buf, q_tail, q_count, mtx_owner, mtx_wait, cv_wait,
                   q_cont, q_ret, q_tmp, q_result, q_attempted, q_pushed,
                   q_popped, q_full, q_snap, pop_base>>
    /\ QueueOnly

PopDec ==
    /\ q_pc[Consumer] = "dec"
    /\ q_count' = q_tmp[Consumer] - 1
    /\ q_popped' = Append(q_popped, q_item[Consumer])
    /\ q_result' = [q_result EXCEPT ![Consumer] = [tag |-> "Ok", ev |-> q_item[Consumer]]]
    /\ q_pc' = [q_pc EXCEPT ![Consumer] = "signal"]
    /\ QHist("PopDec")
    /\ UNCHANGED <<q_cap, q_buf, q_head, q_tail, mtx_owner, mtx_wait, cv_wait,
                   q_cont, q_ret, q_item, q_tmp, q_attempted, q_pushed, q_full,
                   q_snap, pop_base>>
    /\ QueueOnly

PopSignal ==
    /\ q_pc[Consumer] = "signal"
    /\ sys_condvar_signal(Consumer, "unlock")
    /\ QHist("PopSignal")
    /\ UNCHANGED <<q_cap, q_buf, q_head, q_tail, q_count, mtx_owner, mtx_wait,
                   q_cont, q_item, q_tmp, q_result, q_attempted, q_pushed,
                   q_popped, q_full, q_snap, pop_base>>
    /\ QueueOnly

PopUnlock ==
    /\ q_pc[Consumer] = "unlock"
    /\ sys_mutex_unlock(Consumer, "idle")
    /\ QHist("PopUnlock")
    /\ UNCHANGED <<q_cap, q_buf, q_head, q_tail, q_count, cv_wait, q_cont, q_ret,
                   q_item, q_tmp, q_result, q_attempted, q_pushed, q_popped,
                   q_full, q_snap, pop_base>>
    /\ QueueOnly

(***************************************************************************)
(* Critical section (wrappers.c).  One core: k_spin_lock masks interrupts  *)
(* and returns the previous interrupt state as the key; k_spin_unlock      *)
(* restores the state the key holds.  While the handler runs the thread    *)
(* does not.                                                               *)
(***************************************************************************)
CritContexts == {"thread", "isr"}

\* The key of k_spin_lock as the uint32_t token handed to the caller.
KeyOf(locked) == IF locked THEN 1 ELSE 0

\* Variant of z_crit_acquire that reads the interrupt state without masking.
z_crit_acquire_nomask(c) ==
    /\ crit_token' = [crit_token EXCEPT ![c] = KeyOf(irq_locked)]
    /\ irq_locked' = irq_locked

\* uint32_t z_crit_acquire(void): return k_spin_lock(&crit_lock).key
z_crit_acquire(c) ==
    /\ crit_token' = [crit_token EXCEPT ![c] = KeyOf(irq_locked)]
    /\ irq_locked' = TRUE

\* void z_crit_release(uint32_t token): key.key = token; k_spin_unlock(&crit_lock, key)
z_crit_release(token) == irq_locked' = (token # 0)

Runs(c) == IF c = "isr" THEN isr_active ELSE ~isr_active

InCrit(c) == crit_pc[c] \in {"read", "write", "release"}

\* The hardware raises the interrupt.
IrqRaise ==
    /\ ~irq_pending
    /\ ~isr_active
    /\ irq_fired < CritRounds
    /\ irq_pending' = TRUE
    /\ irq_fired' = irq_fired + 1
    /\ irq_deferred' = (irq_deferred \/ irq_locked)
    /\ UNCHANGED <<irq_locked, isr_active, crit_pc, crit_token, crit_tmp,
                   crit_done, counter, counter0>>
    /\ CritOnly

\* The handler starts as soon as interrupts are not masked.
IsrEnter ==
    /\ irq_pending
    /\ ~irq_locked
    /\ irq_pending' = FALSE
    /\ isr_active' = TRUE
    /\ crit_pc' = [crit_pc EXCEPT !["isr"] = "acquire"]
    /\ UNCHANGED <<irq_locked, irq_fired, irq_deferred, crit_token, crit_tmp,
                   crit_done, counter, counter0>>
    /\ CritOnly

\* The thread starts an increment.
CritThreadCall ==
    /\ ~isr_active
    /\ crit_pc["thread"] = "idle"
    /\ crit_done["thread"] < CritRounds
    /\ crit_pc' = [crit_pc EXCEPT !["thread"] = "acquire"]
    /\ UNCHANGED <<irq_locked, irq_pending, isr_active, irq_fired, irq_deferred,
                   crit_token, crit_tmp, crit_done, counter, counter0>>
    /\ CritOnly

CritAcquire(c) ==
    /\ Runs(c)
    /\ crit_pc[c] = "acquire"
    /\ z_crit_acquire(c)
    /\ crit_pc' = [crit_pc EXCEPT ![c] = "read"]
    /\ UNCHANGED <<irq_pending, isr_active, irq_fired, irq_deferred, crit_tmp,
                   crit_done, counter, counter0>>
    /\ CritOnly

CritRead(c) ==
    /\ Runs(c)
    /\ crit_pc[c] = "read"
    /\ crit_tmp' = [crit_tmp EXCEPT ![c] = counter]
    /\ crit_pc' = [crit_pc EXCEPT ![c] = "write"]
    /\ UNCHANGED <<irq_locked, irq_pending, isr_active, irq_fired, irq_deferred,
                   crit_token, crit_done, counter, counter0>>
    /\ CritOnly

CritWrite(c) ==
    /\ Runs(c)
    /\ crit_pc[c] = "write"
    /\ counter' = crit_tmp[c] + 1
    /\ crit_pc' = [crit_pc EXCEPT ![c] = "release"]
    /\ UNCHANGED <<irq_locked, irq_pending, isr_active, irq_fired, irq_deferred,
                   crit_token, crit_tmp, crit_done, counter0>>
    /\ CritOnly

\* z_crit_release, after which the increment is complete; the handler returns.
CritRelease(c) ==
    /\ Runs(c)
    /\ crit_pc[c] = "release"
    /\ z_crit_release(crit_token[c])
    /\ crit_pc' = [crit_pc EXCEPT ![c] = "idle"]
    /\ crit_done' = [crit_done EXCEPT ![c] = crit_done[c] + 1]
    /\ isr_active' = IF c = "isr" THEN FALSE ELSE isr_active
    /\ UNCHANGED <<irq_pending, irq_fired, irq_deferred, crit_token, crit_tmp,
                   counter, counter0>>
    /\ CritOnly

CritStart ==
    /\ irq_locked = FALSE
    /\ irq_pending = FALSE
    /\ isr_active = FALSE
    /\ irq_fired = 0
    /\ irq_deferred = FALSE
    /\ crit_pc = [c \in CritContexts |-> "idle"]
    /\ crit_token = [c \in CritContexts |-> 0]
    /\ crit_tmp = [c \in CritContexts |-> 0]
    /\ crit_done = [c \in CritContexts |-> 0]
    /\ counter = counter0

(***************************************************************************)
(* usb.c: status_cb                                                        *)
(***************************************************************************)
\* enum usb_dc_status_code
UsbDcStatus ==
    {"USB_DC_ERROR", "USB_DC_RESET", "USB_DC_CONNECTED", "USB_DC_CONFIGURED",
     "USB_DC_DISCONNECTED", "USB_DC_SUSPEND", "USB_DC_RESUME",
     "USB_DC_INTERFACE", "USB_DC_SET_HALT", "USB_DC_CLEAR_HALT", "USB_DC_SOF",
     "USB_DC_UNKNOWN"}

\* Variant of the switch of status_cb whose USB_DC_SUSPEND case has no break.
StatusSwitch_nobreak ==
    << [label |-> "USB_DC_CONFIGURED", call |-> <<0>>, brk |-> TRUE],
       [label |-> "USB_DC_SUSPEND",    call |-> <<1>>, brk |-> FALSE],
       [label |-> "USB_DC_RESUME",     call |-> <<2>>, brk |-> FALSE],
       [label |-> "default",           call |-> <<>>,  brk |-> TRUE] >>

\* The switch of status_cb: its case labels in order, the rust_usb_status
\* call of each and whether the case ends in a break (USB_DC_RESUME does
\* not: it falls through to default).
StatusSwitch ==
    << [label |-> "USB_DC_CONFIGURED", call |-> <<0>>, brk |-> TRUE],
       [label |-> "USB_DC_SUSPEND",    call |-> <<1>>, brk |-> TRUE],
       [label |-> "USB_DC_RESUME",     call |-> <<2>>, brk |-> FALSE],
       [label |-> "default",           call |-> <<>>,  brk |-> TRUE] >>

\* The case a switch on status jumps to: its label, or else default.
SwitchEntry(status) ==
    LET hit == {i \in 1..Len(StatusSwitch) : StatusSwitch[i].label = status}
        dfl == {i \in 1..Len(StatusSwitch) : StatusSwitch[i].label = "default"}
    IN  IF hit # {} THEN CHOOSE i \in hit : TRUE
        ELSE IF dfl # {} THEN CHOOSE i \in dfl : TRUE
        ELSE Len(StatusSwitch) + 1

\* The calls made from case i on, up to the first break.
RECURSIVE SwitchRun(_)
SwitchRun(i) ==
    IF i > Len(StatusSwitch) THEN <<>>
    ELSE StatusSwitch[i].call \o (IF StatusSwitch[i].brk THEN <<>> ELSE SwitchRun(i + 1))

\* static void status_cb(enum usb_dc_status_code status, const uint8_t *param)
status_cb(status, ctx) ==
    /\ ~st_halted
    /\ Len(st_log) < MaxStatusLog
    /\ st_event' = [status |-> status, ctx |-> ctx, pre |-> st_log]
    /\ IF NO_ISR(ctx) = "panic"
       THEN /\ st_halted' = TRUE
            /\ st_calls' = <<>>
            /\ st_log' = st_log
       ELSE /\ st_halted' = st_halted
            /\ st_calls' = SwitchRun(SwitchEntry(status))
            /\ st_log' = st_log \o st_calls'
    /\ StatusOnly

StatusCb == \E status \in UsbDcStatus, ctx \in Contexts : status_cb(status, ctx)

StatusStart ==
    /\ st_halted = FALSE
    /\ st_calls = <<>>
    /\ st_log = <<>>
    /\ st_event = [status |-> "none", ctx |-> "thread", pre |-> <<>>]

(***************************************************************************)
(* heartbeat.c: hb_tick, setup_heartbeat                                   *)
(***************************************************************************)
\* k_timer_start(&heartbeat_timer, K_MSEC(1), K_MSEC(1)): initial duration
\* and period, in milliseconds.
HB_DURATION_MS == 1

HB_PERIOD_MS == 1

\* Variant of hb_tick that does not call rust_heartbeat on every other expiry.
hb_tick_skipping ==
    /\ hb_calls' = IF hb_expiries % 2 = 0 THEN hb_calls + 1 ELSE hb_calls
    /\ hb_last' = hb_now

\* static void hb_tick(struct k_timer *timer): calls rust_heartbeat().
hb_tick ==
    /\ hb_calls' = hb_calls + 1
    /\ hb_last' = hb_now

\* void setup_heartbeat(void): k_timer_init with hb_tick as the expiry
\* function, then k_timer_start.
setup_heartbeat ==
    /\ ~hb_running
    /\ hb_fn' = "hb_tick"
    /\ hb_running' = TRUE
    /\ hb_next' = hb_now + HB_DURATION_MS
    /\ hb_period' = HB_PERIOD_MS
    /\ hb_setup_at' = hb_now
    /\ UNCHANGED <<hb_now, hb_calls, hb_expiries, hb_last>>
    /\ HbOnly

\* An expiry of heartbeat_timer: the kernel runs the expiry function and
\* re-arms the timer one period later.
HbExpire ==
    /\ hb_running
    /\ hb_now = hb_next
    /\ hb_expiries' = hb_expiries + 1
    /\ IF hb_fn = "hb_tick" THEN hb_tick ELSE UNCHANGED <<hb_calls, hb_last>>
    /\ hb_next' = hb_next + hb_period
    /\ UNCHANGED <<hb_now, hb_fn, hb_running, hb_period, hb_setup_at>>
    /\ HbOnly

\* A millisecond passes; a due expiry is served first.
HbAdvance ==
    /\ hb_now < MaxTime
    /\ hb_running => hb_now < hb_next
    /\ hb_now' = hb_now + 1
    /\ UNCHANGED <<hb_fn, hb_running, hb_next, hb_period, hb_calls, hb_expiries,
                   hb_setup_at, hb_last>>
    /\ HbOnly

HbStart ==
    /\ hb_now = 0
    /\ hb_fn = "none"
    /\ hb_running = FALSE
    /\ hb_next = 0
    /\ hb_period = 0
    /\ hb_calls = 0
    /\ hb_expiries = 0
    /\ hb_setup_at = 0
    /\ hb_last = 0

(***************************************************************************)
(* uart.c: inter_uart_poll_in, inter_uart_poll_out, inter_uart_setup       *)
(***************************************************************************)
Bytes == 0..MaxByte

UartHist(op, ret, written) ==
    [op |-> op, ret |-> ret, written |-> written, quiet |-> uart_quiet,
     tx_len |-> Len(tx_fifo)]

\* uart_fifo_read(uart, buf, 1): the number of bytes read, 1 when the receive
\* FIFO holds a byte and 0 when it is empty.
uart_fifo_read ==
    IF rx_fifo # <<>> THEN 1 ELSE 0

\* Variant of uart_fifo_fill that replaces the newest byte of a full FIFO.
uart_fifo_fill_overwrite(out_char) ==
    IF Len(tx_fifo) < TxCap
    THEN Append(tx_fifo, out_char)
    ELSE [tx_fifo EXCEPT ![Len(tx_fifo)] = out_char]

\* uart_fifo_fill(uart, &out_char, 1): the transmit FIFO afterwards; the byte
\* is taken only while the FIFO has room.
uart_fifo_fill(out_char) ==
    IF Len(tx_fifo) < TxCap
    THEN Append(tx_fifo, out_char)
    ELSE tx_fifo

\* Variant of inter_uart_poll_in that takes the newest byte of the receive FIFO.
inter_uart_poll_in_newest ==
    /\ link_present
    /\ uart_pc = "idle"
    /\ LET got == uart_fifo_read
       IN  /\ rx_fifo' = IF got = 1 THEN SubSeq(rx_fifo, 1, Len(rx_fifo) - 1) ELSE rx_fifo
           /\ p_char' = IF got = 1 THEN rx_fifo[Len(rx_fifo)] ELSE p_char
           /\ uart_last' = UartHist("poll_in", IF got = 1 THEN 0 ELSE -1, got = 1)
    /\ uart_quiet' = FALSE
    /\ UNCHANGED <<link_present, rx_trace, tx_fifo, irq_rx_en, irq_tx_en, uart_pc,
                   uart_discarded>>
    /\ rx_in' = rx_in
    /\ rx_taken' = IF rx_trace /\ uart_fifo_read = 1
                   THEN Append(rx_taken, [b |-> rx_fifo[Len(rx_fifo)], by |-> "poll_in"])
                   ELSE rx_taken
    /\ UartOnly

\* int inter_uart_poll_in(unsigned char *p_char), link present.
inter_uart_poll_in ==
    /\ link_present
    /\ uart_pc = "idle"
    /\ LET got == uart_fifo_read
       IN  /\ rx_fifo' = IF got = 1 THEN Tail(rx_fifo) ELSE rx_fifo
           /\ p_char' = IF got = 1 THEN Head(rx_fifo) ELSE p_char
           /\ uart_last' = UartHist("poll_in", IF got = 1 THEN 0 ELSE -1, got = 1)
    /\ uart_quiet' = FALSE
    /\ UNCHANGED <<link_present, rx_trace, tx_fifo, irq_rx_en, irq_tx_en, uart_pc,
                   uart_discarded>>
    /\ rx_in' = rx_in
    /\ rx_taken' = IF rx_trace /\ uart_fifo_read = 1
                   THEN Append(rx_taken, [b |-> Head(rx_fifo), by |-> "poll_in"])
                   ELSE rx_taken
    /\ UartOnly

\* void inter_uart_poll_out(unsigned char out_char), link present: the result
\* of uart_fifo_fill is not looked at.
inter_uart_poll_out(out_char) ==
    /\ link_present
    /\ uart_pc = "idle"
    /\ tx_fifo' = uart_fifo_fill(out_char)
    /\ uart_last' = UartHist("poll_out", 0, FALSE)
    /\ UNCHANGED <<link_present, rx_trace, rx_fifo, irq_rx_en, irq_tx_en, uart_pc, p_char,
                   uart_quiet, uart_discarded>>
    /\ UNCHANGED <<rx_in, rx_taken>>
    /\ UartOnly

\* void inter_uart_setup(void), link present: uart_irq_rx_disable,
\* uart_irq_tx_disable, then on to the drain loop.
inter_uart_setup_irq ==
    /\ link_present
    /\ uart_pc = "idle"
    /\ irq_rx_en' = FALSE
    /\ irq_tx_en' = FALSE
    /\ uart_pc' = "drain"
    /\ uart_discarded' = 0
    /\ uart_quiet' = FALSE
    /\ uart_last' = UartHist("setup", 0, FALSE)
    /\ UNCHANGED <<link_present, rx_trace, rx_fifo, tx_fifo, p_char>>
    /\ UNCHANGED <<rx_in, rx_taken>>
    /\ UartOnly

\* Variant of the drain loop that reads at most one byte.
inter_uart_setup_drain_once ==
    /\ uart_pc = "drain"
    /\ rx_fifo' = IF uart_fifo_read = 1 THEN Tail(rx_fifo) ELSE rx_fifo
    /\ uart_discarded' = Min(uart_discarded + uart_fifo_read, RxCap)
    /\ uart_pc' = "idle"
    /\ uart_quiet' = TRUE
    /\ UNCHANGED <<link_present, rx_trace, tx_fifo, irq_rx_en, irq_tx_en, p_char,
                   uart_last>>
    /\ rx_in' = rx_in
    /\ rx_taken' = IF rx_trace /\ uart_fifo_read = 1
                   THEN Append(rx_taken, [b |-> Head(rx_fifo), by |-> "setup"])
                   ELSE rx_taken
    /\ UartOnly

\* One turn of the loop while (uart_fifo_read(uart, &ch, 1) == 1) {} of
\* inter_uart_setup: a byte read is discarded; the first empty read ends the
\* loop and inter_uart_setup returns.
inter_uart_setup_drain ==
    /\ uart_pc = "drain"
    /\ IF uart_fifo_read = 1
       THEN /\ rx_fifo' = Tail(rx_fifo)
            /\ uart_discarded' = Min(uart_discarded + 1, RxCap)
            /\ UNCHANGED <<uart_pc, uart_quiet>>
       ELSE /\ uart_pc' = "idle"
            /\ uart_quiet' = TRUE
            /\ UNCHANGED <<rx_fifo, uart_discarded>>
    /\ UNCHANGED <<link_present, rx_trace, tx_fifo, irq_rx_en, irq_tx_en, p_char,
                   uart_last>>
    /\ rx_in' = rx_in
    /\ rx_taken' = IF rx_trace /\ uart_fifo_read = 1
                   THEN Append(rx_taken, [b |-> Head(rx_fifo), by |-> "setup"])
                   ELSE rx_taken
    /\ UartOnly

\* Variant of the no-link inter_uart_poll_in that clears *p_char.
inter_uart_poll_in_nolink_clear ==
    /\ ~link_present
    /\ uart_pc = "idle"
    /\ p_char' = 0
    /\ uart_last' = UartHist("poll_in", -1, TRUE)
    /\ UNCHANGED <<link_present, rx_trace, rx_fifo, tx_fifo, irq_rx_en, irq_tx_en, uart_pc,
                   uart_quiet, uart_discarded>>
    /\ UNCHANGED <<rx_in, rx_taken>>
    /\ UartOnly

\* int inter_uart_poll_in(unsigned char *p_char), no link: (void) p_char;
\* return -1.
inter_uart_poll_in_nolink ==
    /\ ~link_present
    /\ uart_pc = "idle"
    /\ uart_last' = UartHist("poll_in", -1, FALSE)
    /\ UNCHANGED <<link_present, rx_trace, rx_fifo, tx_fifo, irq_rx_en, irq_tx_en, uart_pc,
                   p_char, uart_quiet, uart_discarded>>
    /\ UNCHANGED <<rx_in, rx_taken>>
    /\ UartOnly

\* void inter_uart_poll_out(unsigned char out_char), no link: (void) out_char.
inter_uart_poll_out_nolink(out_char) ==
    /\ ~link_present
    /\ uart_pc = "idle"
    /\ uart_last' = UartHist("poll_out", 0, FALSE)
    /\ UNCHANGED <<link_present, rx_trace, rx_fifo, tx_fifo, irq_rx_en, irq_tx_en, uart_pc,
                   p_char, uart_quiet, uart_discarded>>
    /\ UNCHANGED <<rx_in, rx_taken>>
    /\ UartOnly

\* void inter_uart_setup(void), no link: empty body.
inter_uart_setup_nolink ==
    /\ ~link_present
    /\ uart_pc = "idle"
    /\ uart_last' = UartHist("setup", 0, FALSE)
    /\ UNCHANGED <<link_present, rx_trace, rx_fifo, tx_fifo, irq_rx_en, irq_tx_en, uart_pc,
                   p_char, uart_quiet, uart_discarded>>
    /\ UNCHANGED <<rx_in, rx_taken>>
    /\ UartOnly

\* The caller of inter_uart_poll_in points p_char at a byte of its own.
UartCallerStore ==
    /\ uart_pc = "idle"
    /\ \E b \in Bytes : p_char' = b /\ b # p_char
    /\ UNCHANGED <<link_present, rx_trace, rx_fifo, tx_fifo, irq_rx_en, irq_tx_en, uart_pc,
                   uart_quiet, uart_discarded, uart_last>>
    /\ UNCHANGED <<rx_in, rx_taken>>
    /\ UartOnly

\* The uart receives a byte from the other board; a byte that finds the
\* receive FIFO full is lost.
UartRxArrive ==
    /\ link_present
    /\ rx_trace => Len(rx_in) < MaxArrive
    /\ \E b \in Bytes :
          /\ rx_fifo' = IF Len(rx_fifo) < RxCap THEN Append(rx_fifo, b) ELSE rx_fifo
          /\ rx_in' = IF rx_trace /\ Len(rx_fifo) < RxCap THEN Append(rx_in, b) ELSE rx_in
    /\ rx_taken' = rx_taken
    /\ uart_quiet' = FALSE
    /\ UNCHANGED <<link_present, rx_trace, tx_fifo, irq_rx_en, irq_tx_en, uart_pc, p_char,
                   uart_discarded, uart_last>>
    /\ UartOnly

\* The uart shifts the oldest byte of the transmit FIFO out.
UartTxShift ==
    /\ link_present
    /\ tx_fifo # <<>>
    /\ tx_fifo' = Tail(tx_fifo)
    /\ UNCHANGED <<link_present, rx_trace, rx_fifo, irq_rx_en, irq_tx_en, uart_pc, p_char,
                   uart_quiet, uart_discarded, uart_last>>
    /\ UNCHANGED <<rx_in, rx_taken>>
    /\ UartOnly

InterUartPollOut == \E out_char \in Bytes : inter_uart_poll_out(out_char)

InterUartPollOutNolink == \E out_char \in Bytes : inter_uart_poll_out_nolink(out_char)

\* The link before the firmware runs, with nothing received.
UartStart ==
    /\ rx_fifo = <<>>
    /\ tx_fifo = <<>>
    /\ uart_pc = "idle"
    /\ p_char = 0
    /\ uart_quiet = FALSE
    /\ uart_discarded = 0
    /\ rx_in = <<>>
    /\ rx_taken = <<>>
    /\ uart_last = [op |-> "none", ret |-> 0, written |-> FALSE, quiet |-> FALSE,
                    tx_len |-> 0]

UartQuiet ==
    /\ link_present = FALSE
    /\ rx_trace = FALSE
    /\ irq_rx_en = FALSE
    /\ irq_tx_en = FALSE
    /\ UartStart

(***************************************************************************)
(* The scheduler and the LED worker.  leds.c gives the LED strip update;   *)
(* the threads and their priorities follow the specification.              *)
(***************************************************************************)
Threads == {"scan", "steno", "led"}

\* Variant of the LED worker's priority in the preemptible range, below the
\* other workers.
LedPriority_preemptible == Cardinality(Threads) - 1

\* The LED worker's priority: negative, the scheduler's cooperative range.
LedPriority == -1

\* Thread priorities, a smaller number being the higher priority: the scan
\* producer above the steno worker, both preemptible.
Priority(t) ==
    CASE t = "scan" -> 0
      [] t = "steno" -> 1
      [] t = "led" -> LedPriority

Preemptible(t) == Priority(t) >= 0

\* The ready thread of highest priority.
Best(S) == CHOOSE t \in S : \A u \in S : Priority(t) <= Priority(u)

\* The current thread gives the processor up.
SchedSwitchAway ==
    IF sched_ready = {}
    THEN sched_cur' = "idle" /\ sched_ready' = sched_ready
    ELSE sched_cur' = Best(sched_ready) /\ sched_ready' = sched_ready \ {Best(sched_ready)}

\* The scheduling point at the end of an interrupt handler: a ready thread
\* takes the processor from the idle thread, or from a preemptible thread of
\* lower priority; a cooperative thread keeps it.
SchedReschedule ==
    IF /\ sched_ready # {}
       /\ \/ sched_cur = "idle"
          \/ /\ Preemptible(sched_cur)
             /\ Priority(Best(sched_ready)) < Priority(sched_cur)
    THEN /\ sched_cur' = Best(sched_ready)
         /\ sched_ready' = (sched_ready \ {Best(sched_ready)})
                              \cup (IF sched_cur = "idle" THEN {} ELSE {sched_cur})
    ELSE UNCHANGED <<sched_cur, sched_ready>>

\* An interrupt handler starts.
SchedIsrEnter ==
    /\ ~sched_isr
    /\ sched_isr' = TRUE
    /\ led_isr_seen' = (led_isr_seen \/ led_pc = "render")
    /\ UNCHANGED <<sched_cur, sched_ready, led_pc, led_left, led_frames, led_intruded>>
    /\ LedOnly

\* The interrupt handler makes a sleeping thread ready (a timer expiry, a
\* semaphore given).
SchedIsrWake(t) ==
    /\ sched_isr
    /\ t # sched_cur
    /\ t \notin sched_ready
    /\ sched_ready' = sched_ready \cup {t}
    /\ UNCHANGED <<sched_cur, sched_isr, led_pc, led_left, led_frames,
                   led_intruded, led_isr_seen>>
    /\ LedOnly

\* The interrupt handler returns through the scheduling point.
SchedIsrExit ==
    /\ sched_isr
    /\ sched_isr' = FALSE
    /\ SchedReschedule
    /\ UNCHANGED <<led_pc, led_left, led_frames, led_intruded, led_isr_seen>>
    /\ LedOnly

\* A preemptible worker runs a piece of its loop.
WorkerRun(t) ==
    /\ ~sched_isr
    /\ sched_cur = t
    /\ t # "led"
    /\ led_intruded' = (led_intruded \/ led_pc = "render")
    /\ UNCHANGED <<sched_cur, sched_ready, sched_isr, led_pc, led_left,
                   led_frames, led_isr_seen>>
    /\ LedOnly

\* A preemptible worker suspends (pop_blocking, hid_report, a sleep).
WorkerSleep(t) ==
    /\ ~sched_isr
    /\ sched_cur = t
    /\ t # "led"
    /\ SchedSwitchAway
    /\ UNCHANGED <<sched_isr, led_pc, led_left, led_frames, led_intruded,
                   led_isr_seen>>
    /\ LedOnly

\* The LED worker calls sys_led_strip_update_rgb(dev, pixels, num_pixels).
LedBegin ==
    /\ ~sched_isr
    /\ sched_cur = "led"
    /\ led_pc = "idle"
    /\ led_frames < MaxFrames
    /\ led_pc' = "render"
    /\ led_left' = NumPixels
    /\ led_intruded' = FALSE
    /\ led_isr_seen' = FALSE
    /\ UNCHANGED <<sched_cur, sched_ready, sched_isr, led_frames>>
    /\ LedOnly

\* led_strip_update_rgb sends one pixel.
LedPixel ==
    /\ ~sched_isr
    /\ sched_cur = "led"
    /\ led_pc = "render"
    /\ led_left > 0
    /\ led_left' = led_left - 1
    /\ UNCHANGED <<sched_cur, sched_ready, sched_isr, led_pc, led_frames,
                   led_intruded, led_isr_seen>>
    /\ LedOnly

\* sys_led_strip_update_rgb returns the result of led_strip_update_rgb.
LedEnd ==
    /\ ~sched_isr
    /\ sched_cur = "led"
    /\ led_pc = "render"
    /\ led_left = 0
    /\ led_pc' = "idle"
    /\ led_frames' = led_frames + 1
    /\ UNCHANGED <<sched_cur, sched_ready, sched_isr, led_left, led_intruded,
                   led_isr_seen>>
    /\ LedOnly

\* The LED worker sleeps until the next frame is due.
LedSleep ==
    /\ ~sched_isr
    /\ sched_cur = "led"
    /\ led_pc = "idle"
    /\ SchedSwitchAway
    /\ UNCHANGED <<sched_isr, led_pc, led_left, led_frames, led_intruded,
                   led_isr_seen>>
    /\ LedOnly

SchedIsrWakeAny == \E t \in Threads : SchedIsrWake(t)

WorkerRunAny == \E t \in Threads : WorkerRun(t)

WorkerSleepAny == \E t \in Threads : WorkerSleep(t)

\* All workers created and asleep, the idle thread running.
LedStart ==
    /\ sched_cur = "idle"
    /\ sched_ready = {}
    /\ sched_isr = FALSE
    /\ led_pc = "idle"
    /\ led_left = 0
    /\ led_frames = 0
    /\ led_intruded = FALSE
    /\ led_isr_seen = FALSE

LedQuiet == LedStart

(***************************************************************************)
(* CDC ACM serial ports: acm_write and acm_has_dtr (usb.c).                *)
(***************************************************************************)

\* cdc_dev[]: one entry per CDC ACM node of the devicetree.
AcmIndex == {0, 1}

AcmBytes == {"a", "b"}

RECURSIVE SeqsUpTo(_, _)
SeqsUpTo(S, n) ==
    IF n = 0 THEN {<<>>}
    ELSE LET shorter == SeqsUpTo(S, n - 1)
         IN  shorter \cup {Append(q, x) : q \in {r \in shorter : Len(r) = n - 1}, x \in S}

\* The buffers handed to acm_write: buf[0..len-1], len from 0 to MaxAcmLen.
AcmBufs == SeqsUpTo(AcmBytes, MaxAcmLen)

\* Answers of uart_line_ctrl_get(dev, UART_LINE_CTRL_DTR, &ctrl): res is 0
\* with ctrl the DTR bit, or an error with ctrl left as declared, unset.
AcmLineStates ==
    {[res |-> 0, ctrl |-> 0], [res |-> 0, ctrl |-> 1], [res |-> -1, ctrl |-> "unset"]}

uart_line_ctrl_get(index) == acm_line[index]

\* if (res != 0 || !ctrl): ctrl is read only when res is 0.
AcmNoDtr(index) ==
    LET l == uart_line_ctrl_get(index)
    IN  l.res # 0 \/ l.ctrl = 0

\* int acm_has_dtr(int index): return res == 0 && ctrl;
acm_has_dtr(index) ==
    LET l == uart_line_ctrl_get(index)
    IN  IF l.res = 0 /\ l.ctrl # 0 THEN 1 ELSE 0

\* uart_fifo_fill(dev, buf, len) of the CDC ACM driver: copies as much of
\* the front of buf as the transmit FIFO has room for, returns that count.
AcmFifoFillCount(index, buf) == Min(Len(buf), AcmCap - Len(acm_fifo[index]))

AcmFifoFill(index, buf) == acm_fifo[index] \o SubSeq(buf, 1, AcmFifoFillCount(index, buf))

AcmHist(op, index, len, calls, written) ==
    [op |-> op, index |-> index, len |-> len, calls |-> calls, written |-> written]

\* Variant of acm_write whose loop goes round again, without the break, for
\* the bytes the first fill did not take.
acm_write_retry(index, buf) ==
    IF AcmNoDtr(index)
    THEN /\ acm_last' = AcmHist("acm_write", index, Len(buf), <<"line_ctrl_get">>, 0)
         /\ UNCHANGED <<acm_line, acm_fifo, acm_irq_tx>>
         /\ AcmOnly
    ELSE LET len == Len(buf)
             written == AcmFifoFillCount(index, buf)
             again == IF len > 0 /\ written # len THEN <<"fifo_fill">> ELSE <<>>
             fills == IF len # 0 THEN <<"fifo_fill">> \o again ELSE <<>>
         IN  /\ acm_fifo' = [acm_fifo EXCEPT ![index] = AcmFifoFill(index, buf)]
             /\ acm_irq_tx' = [acm_irq_tx EXCEPT ![index] = FALSE]
             /\ acm_last' = AcmHist("acm_write", index, len,
                                    <<"line_ctrl_get", "irq_tx_enable">> \o fills \o <<"irq_tx_disable">>,
                                    written)
             /\ UNCHANGED acm_line
             /\ AcmOnly

\* void acm_write(int index, const uint8_t *buf, int len), usb.c 87-111.
\* Returns at once without DTR.  Otherwise uart_irq_tx_enable, then the
\* while (len) loop whose body fills once and breaks, then
\* uart_irq_tx_disable: the interrupt is enabled only inside the call.
acm_write(index, buf) ==
    IF AcmNoDtr(index)
    THEN /\ acm_last' = AcmHist("acm_write", index, Len(buf), <<"line_ctrl_get">>, 0)
         /\ UNCHANGED <<acm_line, acm_fifo, acm_irq_tx>>
         /\ AcmOnly
    ELSE LET len == Len(buf)
             written == IF len # 0 THEN AcmFifoFillCount(index, buf) ELSE 0
             fills == IF len # 0 THEN <<"fifo_fill">> ELSE <<>>
         IN  /\ acm_fifo' = [acm_fifo EXCEPT ![index] =
                                IF len # 0 THEN AcmFifoFill(index, buf) ELSE @]
             /\ acm_irq_tx' = [acm_irq_tx EXCEPT ![index] = FALSE]
             /\ acm_last' = AcmHist("acm_write", index, len,
                                    <<"line_ctrl_get", "irq_tx_enable">> \o fills \o <<"irq_tx_disable">>,
                                    written)
             /\ UNCHANGED acm_line
             /\ AcmOnly

AcmWrite == \E index \in AcmIndex, buf \in AcmBufs : acm_write(index, buf)

\* A caller asks acm_has_dtr.
AcmHasDtr ==
    \E index \in AcmIndex :
        /\ acm_last' = AcmHist("acm_has_dtr", index, 0, <<"line_ctrl_get">>, acm_has_dtr(index))
        /\ UNCHANGED <<acm_line, acm_fifo, acm_irq_tx>>
        /\ AcmOnly

\* The host opens or closes the port, or the control request starts failing.
AcmLineChange ==
    \E index \in AcmIndex, l \in AcmLineStates :
        /\ l # acm_line[index]
        /\ acm_line' = [acm_line EXCEPT ![index] = l]
        /\ UNCHANGED <<acm_fifo, acm_irq_tx, acm_last>>
        /\ AcmOnly

\* The USB stack sends the oldest byte of a port's FIFO to the host.
AcmHostRead ==
    \E index \in AcmIndex :
        /\ acm_fifo[index] # <<>>
        /\ acm_fifo' = [acm_fifo EXCEPT ![index] = Tail(@)]
        /\ UNCHANGED <<acm_line, acm_irq_tx, acm_last>>
        /\ AcmOnly

\* The ports as the driver initialises them: FIFO empty, interrupt off.
AcmStart ==
    /\ acm_fifo = [i \in AcmIndex |-> <<>>]
    /\ acm_irq_tx = [i \in AcmIndex |-> FALSE]
    /\ acm_last = AcmHist("none", 0, 0, <<>>, 0)

AcmQuiet ==
    /\ acm_line = [i \in AcmIndex |-> [res |-> 0, ctrl |-> 0]]
    /\ AcmStart

(***************************************************************************)
(* Initial states and specifications.                                      *)
(***************************************************************************)
\* int usb_setup(void): what it leaves in hid0_dev.  It returns early, with
\* 0 like a success, when device_get_binding finds no HID device, when a CDC
\* ACM device is not ready (before the HID device is registered) or when
\* usb_enable fails.
usb_setup(found, cdc_ready, enabled) ==
    hid0_dev = IF ~found THEN "NULL"
               ELSE IF ~cdc_ready THEN "unregistered"
               ELSE IF ~enabled THEN "disabled"
               ELSE "ready"

GateStart ==
    /\ usb_sem = K_SEM_INITIAL
    /\ sem_wait = <<>>
    /\ hid_pc = [t \in Senders |-> "idle"]
    /\ hid_busy = 0
    /\ halted = FALSE
    /\ hid_poll = [t \in Senders |-> -1]
    /\ extra_cb = FALSE
    /\ overlap = FALSE
    /\ gate_hist = "none"
    /\ hid_writes = 0
    /\ hid_last = [op |-> "none", ctx |-> "thread", pre |-> K_SEM_INITIAL, woke |-> 0, polled |-> -1]

QueueStart ==
    /\ q_buf = [i \in 0..(q_cap - 1) |-> NoEvent]
    /\ q_head = 0
    /\ q_tail = 0
    /\ q_count = 0
    /\ mtx_owner = "none"
    /\ mtx_wait = <<>>
    /\ cv_wait = <<>>
    /\ q_pc = [t \in QThreads |-> "idle"]
    /\ q_cont = [t \in QThreads |-> "idle"]
    /\ q_ret = [t \in QThreads |-> 0]
    /\ q_item = [t \in QThreads |-> NoEvent]
    /\ q_tmp = [t \in QThreads |-> 0]
    /\ q_result = [t \in QThreads |-> [tag |-> "none", ev |-> NoEvent]]
    /\ q_attempted = <<>>
    /\ q_pushed = <<>>
    /\ q_popped = <<>>
    /\ q_full = 0
    /\ q_snap = NoSnapshot
    /\ pop_base = 0
    /\ q_last = "none"

\* Each component at rest, for the specifications of the other components.
GateQuiet == cfg_assert = FALSE /\ hid0_dev = "ready" /\ GateStart

QueueQuiet == q_cap = MaxCap /\ QueueStart

CritQuiet == counter0 = 0 /\ CritStart

StatusQuiet == StatusStart

HbQuiet == HbStart

InitGate ==
    /\ cfg_assert \in BOOLEAN
    /\ hid0_dev = "ready"
    /\ GateStart
    /\ QueueQuiet
    /\ CritQuiet
    /\ StatusQuiet
    /\ HbQuiet
    /\ UartQuiet
    /\ LedQuiet
    /\ AcmQuiet

InitQueue ==
    /\ GateQuiet
    /\ q_cap \in 1..MaxCap
    /\ QueueStart
    /\ CritQuiet
    /\ StatusQuiet
    /\ HbQuiet
    /\ UartQuiet
    /\ LedQuiet
    /\ AcmQuiet

InitCrit ==
    /\ GateQuiet
    /\ QueueQuiet
    /\ counter0 \in 0..MaxCounter0
    /\ CritStart
    /\ StatusQuiet
    /\ HbQuiet
    /\ UartQuiet
    /\ LedQuiet
    /\ AcmQuiet

InReadyCb == \E ctx \in Contexts : in_ready_cb(ctx)

Poll == \E t \in Senders : IsHidAccepting(t)

HidReportTake == \E t \in Senders : hid_report_take(t)

HidReportWrite == \E t \in Senders : hid_report_write(t)

HidReportIsr == hid_report_isr

NextGate ==
    \/ InReadyCb
    \/ Poll
    \/ HidReportTake
    \/ HidReportWrite
    \/ HidReportIsr

SpecGate == InitGate /\ [][NextGate]_vars

\* The gate with a single sender thread: only sender 1 calls
\* is_hid_accepting and hid_report.
PollOne == IsHidAccepting(1)

HidReportTakeOne == hid_report_take(1)

HidReportWriteOne == hid_report_write(1)

NextGateSingle ==
    \/ InReadyCb
    \/ PollOne
    \/ HidReportTakeOne
    \/ HidReportWriteOne

SpecGateSingle == InitGate /\ [][NextGateSingle]_vars

\* The gate when the USB stack behaves: in_ready_cb runs once for each
\* report the endpoint holds, in thread context, and does so eventually;
\* a sender that owns the permit eventually reaches its write.
CompletionCb == hid_busy = 1 /\ in_ready_cb("thread")

NextGateLive ==
    \/ CompletionCb
    \/ Poll
    \/ HidReportTake
    \/ HidReportWrite

SpecGateLive ==
    /\ InitGate
    /\ [][NextGateLive]_vars
    /\ WF_vars(CompletionCb)
    /\ \A t \in Senders : WF_vars(hid_report_write(t))

\* The gate after usb_setup, whatever its outcome, with a USB stack that
\* runs in_ready_cb once for each report the endpoint accepted.
InitGateSetup ==
    /\ cfg_assert \in BOOLEAN
    /\ \E found, cdc_ready, enabled \in BOOLEAN : usb_setup(found, cdc_ready, enabled)
    /\ GateStart
    /\ QueueQuiet
    /\ CritQuiet
    /\ StatusQuiet
    /\ HbQuiet
    /\ UartQuiet
    /\ LedQuiet
    /\ AcmQuiet

SpecGateSetup == InitGateSetup /\ [][NextGateLive]_vars

InitAcm ==
    /\ GateQuiet
    /\ QueueQuiet
    /\ CritQuiet
    /\ StatusQuiet
    /\ HbQuiet
    /\ UartQuiet
    /\ LedQuiet
    /\ acm_line \in [AcmIndex -> AcmLineStates]
    /\ AcmStart

NextAcm ==
    \/ AcmWrite
    \/ AcmHasDtr
    \/ AcmLineChange
    \/ AcmHostRead

SpecAcm == InitAcm /\ [][NextAcm]_vars

NextQueue ==
    \/ PushCall
    \/ PushLock
    \/ PushCheck
    \/ PushStore
    \/ PushInc
    \/ PushSignal
    \/ PushUnlock
    \/ PopCall
    \/ PopLock
    \/ PopCheck
    \/ PopWait
    \/ PopTimeout
    \/ PopRelock
    \/ PopWaited
    \/ PopLoad
    \/ PopDec
    \/ PopSignal
    \/ PopUnlock

SpecQueue == InitQueue /\ [][NextQueue]_vars

CritAcquireStep == \E c \in CritContexts : CritAcquire(c)

CritReadStep == \E c \in CritContexts : CritRead(c)

CritWriteStep == \E c \in CritContexts : CritWrite(c)

CritReleaseStep == \E c \in CritContexts : CritRelease(c)

NextCrit ==
    \/ IrqRaise
    \/ IsrEnter
    \/ CritThreadCall
    \/ CritAcquireStep
    \/ CritReadStep
    \/ CritWriteStep
    \/ CritReleaseStep

SpecCrit == InitCrit /\ [][NextCrit]_vars

InitStatus ==
    /\ GateQuiet
    /\ QueueQuiet
    /\ CritQuiet
    /\ StatusStart
    /\ HbQuiet
    /\ UartQuiet
    /\ LedQuiet
    /\ AcmQuiet

NextStatus ==
    \/ StatusCb

SpecStatus == InitStatus /\ [][NextStatus]_vars

InitHeartbeat ==
    /\ GateQuiet
    /\ QueueQuiet
    /\ CritQuiet
    /\ StatusQuiet
    /\ HbStart
    /\ UartQuiet
    /\ LedQuiet
    /\ AcmQuiet

NextHeartbeat ==
    \/ setup_heartbeat
    \/ HbExpire
    \/ HbAdvance

SpecHeartbeat == InitHeartbeat /\ [][NextHeartbeat]_vars

\* The link in either configuration, its interrupt sources as the boot code
\* left them.
InitUart ==
    /\ GateQuiet
    /\ QueueQuiet
    /\ CritQuiet
    /\ StatusQuiet
    /\ HbQuiet
    /\ link_present \in BOOLEAN
    /\ irq_rx_en \in BOOLEAN
    /\ irq_tx_en \in BOOLEAN
    /\ rx_trace = FALSE
    /\ UartStart
    /\ LedQuiet
    /\ AcmQuiet

NextUart ==
    \/ inter_uart_poll_in
    \/ InterUartPollOut
    \/ inter_uart_setup_irq
    \/ inter_uart_setup_drain
    \/ inter_uart_poll_in_nolink
    \/ InterUartPollOutNolink
    \/ inter_uart_setup_nolink
    \/ UartCallerStore
    \/ UartRxArrive
    \/ UartTxShift

SpecUart == InitUart /\ [][NextUart]_vars

\* The receive side of a present link, with the received bytes traced.
InitUartRx ==
    /\ GateQuiet
    /\ QueueQuiet
    /\ CritQuiet
    /\ StatusQuiet
    /\ HbQuiet
    /\ link_present = TRUE
    /\ irq_rx_en \in BOOLEAN
    /\ irq_tx_en \in BOOLEAN
    /\ rx_trace = TRUE
    /\ UartStart
    /\ LedQuiet
    /\ AcmQuiet

NextUartRx ==
    \/ inter_uart_poll_in
    \/ inter_uart_setup_irq
    \/ inter_uart_setup_drain
    \/ UartCallerStore
    \/ UartRxArrive

SpecUartRx == InitUartRx /\ [][NextUartRx]_vars

InitLed ==
    /\ GateQuiet
    /\ QueueQuiet
    /\ CritQuiet
    /\ StatusQuiet
    /\ HbQuiet
    /\ UartQuiet
    /\ LedStart
    /\ AcmQuiet

NextLed ==
    \/ SchedIsrEnter
    \/ SchedIsrWakeAny
    \/ SchedIsrExit
    \/ WorkerRunAny
    \/ WorkerSleepAny
    \/ LedBegin
    \/ LedPixel
    \/ LedEnd
    \/ LedSleep

SpecLed == InitLed /\ [][NextLed]_vars

(***************************************************************************)
(* Properties of the output gate.                                          *)
(***************************************************************************)

\* C1 (as stated): once hid_report has returned, is_hid_accepting returns
\* false until in_ready_cb has released once, and after that single release
\* it returns true again, in every execution.
C1_AsStated ==
    /\ gate_hist = "returned" => is_hid_accepting = 0
    /\ gate_hist \in {"released", "handoff"} => is_hid_accepting = 1

\* C1 (amended): provided no completion callback ran without a report in
\* flight, is_hid_accepting returns false after hid_report has returned until
\* in_ready_cb releases; after that single release it returns true when no
\* sender was pended on usb_sem, and stays false when the release handed the
\* permit to a pended sender.
C1_GateAfterSend ==
    /\ (~extra_cb /\ gate_hist = "returned") => is_hid_accepting = 0
    /\ gate_hist = "released" => is_hid_accepting = 1
    /\ gate_hist = "handoff" => is_hid_accepting = 0

C1_Witness ==
    /\ cfg_assert
    /\ gate_hist = "released"
    /\ ~extra_cb
    /\ hid_last.op = "in_ready_cb"
    /\ hid_last.pre = 0
    /\ usb_sem = 1

\* C2: the count of usb_sem is always 0 or 1, and an in_ready_cb that runs
\* while the count is already 1 leaves it at 1.
C2_PermitBound ==
    /\ usb_sem \in {0, 1}
    /\ (hid_last.op = "in_ready_cb" /\ hid_last.pre = 1) => usb_sem = 1

C2_Witness ==
    /\ hid_last.op = "in_ready_cb"
    /\ hid_last.ctx = "thread"
    /\ hid_last.pre = 1
    /\ gate_hist = "later"
    /\ usb_sem = 1

\* C3: when every completion callback belongs to a transmitted report, no
\* hid_int_ep_write is issued while an earlier report is still in flight.
C3_NoOverlap == ~extra_cb => ~overlap

C3_Witness ==
    /\ ~extra_cb
    /\ hid_writes >= 2
    /\ hid_busy = 1
    /\ sem_wait # <<>>
    /\ ~overlap

\* C9 (as stated): hid_report called from interrupt context halts the device
\* without taking the permit and without writing to the HID device.
C9_AsStated ==
    (hid_last.op = "hid_report" /\ hid_last.ctx = "isr")
        => (halted /\ usb_sem = hid_last.pre)

MaxOf(a, b) == IF a > b THEN a ELSE b

\* C4: as long as no push returned Full, the items popped are the first
\* items passed to push, in order, and (whenever nobody is inside the queue)
\* the items popped followed by the items stored are exactly the items pushed.
C4_Fifo ==
    q_full = 0 =>
        /\ Len(q_popped) <= Len(q_attempted)
        /\ q_popped = SubSeq(q_attempted, 1, Len(q_popped))
        /\ mtx_owner = "none" => q_popped \o Contents = q_pushed

C4_Witness ==
    /\ q_full = 0
    /\ Len(q_popped) >= 2
    /\ q_count >= 1
    /\ q_tail < q_head
    /\ mtx_owner = "none"

\* C5: push never waits on the condition variable; a push that finds
\* count = capacity returns Full with the buffer, head, tail and count as it
\* found them; and when nothing has been popped, after P pushes exactly
\* max(0, P - capacity) returned Full and the items stored are the first
\* min(P, capacity) items pushed.
C5_PushFull ==
    /\ q_pc[Producer] # "cvwait"
    /\ (q_result[Producer].tag = "Full" /\ q_last = "PushUnlock")
          => (Snapshot = q_snap /\ q_count = q_cap)
    /\ (q_popped = <<>> /\ q_pc[Producer] = "idle" /\ q_pc[Consumer] # "dec")
          => /\ q_full = MaxOf(0, Len(q_attempted) - q_cap)
             /\ Contents = SubSeq(q_attempted, 1, Min(Len(q_attempted), q_cap))

C5_Witness ==
    /\ q_cap >= 2
    /\ q_popped = <<>>
    /\ q_result[Producer].tag = "Full"
    /\ q_last = "PushUnlock"
    /\ q_full = Len(q_attempted) - q_cap
    /\ q_full >= 2

\* C6: 0 <= count <= capacity, and count is the number of items stored by
\* push minus the number of items removed by pop_blocking.
C6_CountInvariant ==
    /\ 0 <= q_count
    /\ q_count <= q_cap
    /\ q_count = Len(q_pushed) - Len(q_popped)

C6_Witness ==
    /\ q_cap >= 2
    /\ q_count = q_cap
    /\ Len(q_popped) >= 1
    /\ q_pc[Consumer] = "load"
    /\ q_pc[Producer] = "mtxwait"

\* C7: the consumer waits only on an empty queue and is never left waiting
\* when an item is stored and nobody holds the lock (no lost wakeup); a pop
\* that returns an item has removed exactly that one item, the oldest; a pop
\* that returns Timeout has removed nothing.
C7_PopBlocking ==
    /\ q_pc[Consumer] = "wait" => q_count = 0
    /\ (q_pc[Consumer] = "cvwait" /\ mtx_owner = "none") => q_count = 0
    /\ (q_pc[Consumer] = "idle" /\ q_result[Consumer].tag = "Timeout")
          => Len(q_popped) = pop_base
    /\ (q_pc[Consumer] = "idle" /\ q_result[Consumer].tag = "Ok")
          => /\ Len(q_popped) = pop_base + 1
             /\ q_result[Consumer].ev = q_popped[Len(q_popped)]
             /\ Len(q_pushed) >= Len(q_popped)
             /\ q_result[Consumer].ev = q_pushed[Len(q_popped)]

\* The scenario of C7: (0,0,pressed) then (1,2,released) pushed into an empty
\* queue of capacity 4, both popped in that order, then a pop timed out.
C7_Witness ==
    /\ q_cap = 4
    /\ q_attempted = << ScanEvent([row |-> 0, col |-> 0, pressed |-> TRUE], 1),
                        ScanEvent([row |-> 1, col |-> 2, pressed |-> FALSE], 2) >>
    /\ q_popped = q_attempted
    /\ q_pc[Consumer] = "idle"
    /\ q_last = "PopUnlock"
    /\ q_result[Consumer].tag = "Timeout"

(***************************************************************************)
(* Properties of the critical section.                                     *)
(***************************************************************************)

\* C8: the thread and the interrupt handler are never both inside the
\* section, and whenever neither is inside, the counter is its initial value
\* plus the number of increments completed (initial + 2 after one increment
\* from each context): no update is lost.
C8_CritSection ==
    /\ ~(InCrit("thread") /\ InCrit("isr"))
    /\ (\A c \in CritContexts : crit_pc[c] = "idle")
          => counter = counter0 + crit_done["thread"] + crit_done["isr"]
    /\ (crit_done["thread"] = 1 /\ crit_done["isr"] = 1
          /\ \A c \in CritContexts : crit_pc[c] = "idle")
          => counter = counter0 + 2

C8_Witness ==
    /\ crit_done["thread"] = 1
    /\ crit_done["isr"] = 1
    /\ irq_fired = 1
    /\ irq_deferred
    /\ \A c \in CritContexts : crit_pc[c] = "idle"
    /\ counter = counter0 + 2

(***************************************************************************)
(* Further properties of the output gate.                                  *)
(***************************************************************************)

\* A write that the endpoint rejected: no completion callback will follow it.
\* (Under SpecGateLive a permit is only ever held while the endpoint is idle,
\* so an accepted write always leaves hid_busy at 1.)
WriteRejected == hid_last.op = "hid_report_write" /\ hid_busy = 0

C15_InitialPermit ==
    (hid_writes = 0 /\ \A t \in Senders : hid_pc[t] # "write")
        => /\ \A t \in Senders : hid_pc[t] = "idle"
           /\ usb_sem = 1
           /\ is_hid_accepting = 1

C15_Witness ==
    /\ hid_last.op = "hid_report_take"
    /\ hid_last.pre = 1
    /\ hid_writes = 0
    /\ gate_hist = "none"
    /\ ~extra_cb
    /\ usb_sem = 0
    /\ \E t \in Senders : hid_pc[t] = "write"

\* C16: a run of in_ready_cb raises the count of usb_sem by at most 1, or
\* hands the permit to the first pended sender, and leaves everything else
\* alone: the queue, the critical section, the reports written to the HID
\* device, the poll results; it stops the device only through NO_ISR.
C16_CallbackFrame ==
    [][InReadyCb =>
         /\ usb_sem' \in {usb_sem, usb_sem + 1}
         /\ UNCHANGED <<queue_vars, crit_vars, hid_writes, overlap, hid_poll, cfg_assert>>
         /\ hid_pc' # hid_pc
               => /\ sem_wait # <<>>
                  /\ hid_pc' = [hid_pc EXCEPT ![Head(sem_wait)] = "write"]
                  /\ sem_wait' = Tail(sem_wait)
                  /\ usb_sem' = usb_sem
         /\ hid_pc' = hid_pc => sem_wait' = sem_wait
         /\ halted' => hid_last'.ctx = "isr"
      ]_vars

C16_Witness ==
    /\ hid_last.op = "in_ready_cb"
    /\ hid_last.ctx = "thread"
    /\ hid_last.pre = 0
    /\ hid_last.woke = 0
    /\ hid_writes = 1
    /\ usb_sem = 1

\* C19: with a single sender, a true answer of is_hid_accepting stays valid
\* until the sender's next hid_report, which then takes the permit without
\* pending; a hid_report that finds the count at 0 pends, and stays pended
\* with the count at 0 until in_ready_cb runs; is_hid_accepting leaves the
\* count as it was.
C19_PollThenSend ==
    /\ (hid_poll[1] = 1 /\ hid_pc[1] = "idle") => usb_sem > 0
    /\ (hid_last.op = "hid_report_take" /\ hid_last.polled = 1) => hid_pc[1] = "write"
    /\ (hid_last.op = "hid_report_take" /\ hid_last.pre = 0)
          => (hid_pc[1] = "pend" /\ is_hid_accepting = 0)
    /\ hid_pc[1] = "pend" => (usb_sem = 0 /\ sem_wait = <<1>>)
    /\ (hid_last.op = "in_ready_cb" /\ hid_last.ctx = "thread" /\ hid_last.pre = 0)
          => (hid_last.woke = 1 /\ hid_pc[1] = "write") \/ usb_sem = 1
    /\ hid_last.op = "is_hid_accepting" => usb_sem = hid_last.pre

C19_Witness ==
    /\ hid_last.op = "hid_report_take"
    /\ hid_last.polled = 1
    /\ hid_pc[1] = "write"
    /\ hid_writes >= 1
    /\ ~extra_cb

(***************************************************************************)
(* USB status forwarding.                                                  *)
(***************************************************************************)

C18_Heartbeat ==
    /\ [](/\ hb_calls = hb_expiries
          /\ ~hb_running => hb_calls = 0
          /\ hb_running => /\ hb_next = hb_setup_at + (hb_calls + 1) * 1
                           /\ hb_now <= hb_next
          /\ hb_calls > 0 => hb_last = hb_setup_at + hb_calls * 1)
    /\ [][HbExpire => UNCHANGED <<gate_vars, queue_vars, crit_vars, status_vars>>]_vars

C18_Witness ==
    /\ hb_running
    /\ hb_setup_at = 2
    /\ hb_calls = 3
    /\ hb_last = 5
    /\ hb_now = 5

(***************************************************************************)
(* The inter-board link.                                                   *)
(***************************************************************************)

\* C11: when inter_uart_setup has returned and no byte was received since,
\* both interrupt sources of the uart are disabled and the receive FIFO is
\* empty, whatever it held before; an inter_uart_poll_in made then returns -1
\* and stores nothing.
C11_SetupDrains ==
    /\ uart_quiet => (rx_fifo = <<>> /\ ~irq_rx_en /\ ~irq_tx_en /\ uart_pc = "idle")
    /\ (uart_last.op = "poll_in" /\ uart_last.quiet)
          => (uart_last.ret = -1 /\ ~uart_last.written)

C11_Witness ==
    /\ uart_last.op = "poll_in"
    /\ uart_last.quiet
    /\ uart_discarded = RxCap
    /\ uart_last.ret = -1

\* C12: with the link present, inter_uart_poll_out can always be called and
\* returns in one step: the byte is appended to the transmit FIFO when there
\* is room, and otherwise the FIFO is left as it was; nothing else changes
\* and no result is reported.
C12_PollOutNeverBlocks ==
    /\ []((link_present /\ uart_pc = "idle") => ENABLED InterUartPollOut)
    /\ [][\A b \in Bytes : inter_uart_poll_out(b) =>
             /\ tx_fifo' = IF Len(tx_fifo) < TxCap THEN Append(tx_fifo, b) ELSE tx_fifo
             /\ uart_pc' = "idle"
             /\ uart_last'.ret = 0
             /\ UNCHANGED <<rx_fifo, irq_rx_en, irq_tx_en, p_char>>
       ]_vars

C12_Witness ==
    /\ uart_last.op = "poll_out"
    /\ uart_last.tx_len = TxCap
    /\ Len(tx_fifo) = TxCap
    /\ uart_pc = "idle"

\* C13: without the link, every call returns in one step and changes nothing
\* of the uart or of the caller's byte; inter_uart_poll_in returns -1.
C13_LinkAbsent ==
    /\ [](~link_present =>
            /\ uart_pc = "idle"
            /\ uart_last.op = "poll_in" => (uart_last.ret = -1 /\ ~uart_last.written)
            /\ ENABLED inter_uart_poll_in_nolink
            /\ ENABLED InterUartPollOutNolink
            /\ ENABLED inter_uart_setup_nolink)
    /\ [][(inter_uart_poll_in_nolink \/ InterUartPollOutNolink \/ inter_uart_setup_nolink)
             => UNCHANGED <<rx_fifo, tx_fifo, irq_rx_en, irq_tx_en, p_char, uart_quiet>>
       ]_vars

C13_Witness ==
    /\ ~link_present
    /\ uart_last.op = "poll_in"
    /\ uart_last.ret = -1
    /\ ~uart_last.written
    /\ p_char = 1

(***************************************************************************)
(* The LED worker.                                                         *)
(***************************************************************************)

\* C17: from the start of an LED strip update to its end the LED worker owns
\* the processor and no preemptible thread has run, whatever became ready in
\* between; only interrupt handlers run in between.
C17_LedNotPreempted ==
    led_pc = "render" => (sched_cur = "led" /\ ~led_intruded)

C17_Witness ==
    /\ led_pc = "render"
    /\ led_left = 0
    /\ sched_ready = {"scan", "steno"}
    /\ led_isr_seen
    /\ ~sched_isr
    /\ led_frames = 1

(***************************************************************************)
(* Delivery of received bytes.                                             *)
(***************************************************************************)
\* The bytes of a sequence of takes.
TakenBytes(seq) == [i \in 1..Len(seq) |-> seq[i].b]

\* The takes made by inter_uart_poll_in.
Delivered == SelectSeq(rx_taken, LAMBDA e : e.by = "poll_in")

\* C23: with the link present, inter_uart_poll_in returns 0 exactly when the
\* receive FIFO held a byte, which it then removes from the front and stores
\* through p_char, one byte per call; otherwise it returns -1 and leaves the
\* FIFO and the caller's byte alone.  The bytes taken out of the FIFO,
\* followed by those still in it, are the bytes that entered it, in order:
\* no byte is delivered twice or out of order.
C23_PollInDelivery ==
    /\ [](rx_trace => TakenBytes(rx_taken) \o rx_fifo = rx_in)
    /\ [][inter_uart_poll_in =>
            IF rx_fifo # <<>>
            THEN /\ uart_last'.ret = 0
                 /\ uart_last'.written
                 /\ p_char' = Head(rx_fifo)
                 /\ rx_fifo' = Tail(rx_fifo)
                 /\ rx_trace => rx_taken' = Append(rx_taken, [b |-> p_char', by |-> "poll_in"])
            ELSE /\ uart_last'.ret = -1
                 /\ ~uart_last'.written
                 /\ UNCHANGED <<rx_fifo, p_char, rx_taken>>
       ]_vars

C23_Witness ==
    /\ rx_trace
    /\ uart_last.op = "poll_in"
    /\ uart_last.ret = 0
    /\ rx_in = <<1, 0, 1>>
    /\ TakenBytes(Delivered) = <<0, 1>>
    /\ TakenBytes(rx_taken) = <<1, 0, 1>>
    /\ p_char = 1

(***************************************************************************)
(* The permit when a write gets no completion callback.                    *)
(***************************************************************************)

\* C22: the count of usb_sem rises, and a pended sender is released, only in
\* in_ready_cb; the write step of hid_report leaves the count and the waiters
\* as they are whatever hid_int_ep_write returned; so once a write was
\* rejected, or any write was made after usb_setup failed, the count stays 0,
\* is_hid_accepting stays false and no sender gets past k_sem_take again.
C22_PermitLeak ==
    /\ [][(\/ usb_sem' > usb_sem
           \/ \E t \in Senders : hid_pc[t] = "pend" /\ hid_pc'[t] # "pend")
             => hid_last'.op = "in_ready_cb"]_vars
    /\ [][HidReportWrite => UNCHANGED <<usb_sem, sem_wait>>]_vars
    /\ [](WriteRejected =>
            [](usb_sem = 0 /\ is_hid_accepting = 0 /\ \A t \in Senders : hid_pc[t] # "write"))
    /\ []((hid0_dev # "ready" /\ hid_writes >= 1) =>
            (usb_sem = 0 /\ \A t \in Senders : hid_pc[t] # "write"))

C22_Witness ==
    /\ hid0_dev = "ready"
    /\ hid_writes = 1
    /\ hid_busy = 0
    /\ usb_sem = 0
    /\ ~halted
    /\ \A t \in Senders : hid_pc[t] = "pend"

(***************************************************************************)
(* acm_write: gating on DTR, one fill, nothing retried.                    *)
(***************************************************************************)

\* What a call of acm_write does to its port when DTR is not to be had.
AcmGated(index) ==
    /\ acm_last'.calls = <<"line_ctrl_get">>
    /\ UNCHANGED <<acm_fifo, acm_irq_tx>>

\* What a call does to its port with DTR asserted, making `fills` attempts.
AcmSent(index, buf, fills) ==
    LET room == AcmCap - Len(acm_fifo[index])
        took == Min(Len(buf), room)
    IN  /\ acm_last'.calls = <<"line_ctrl_get", "irq_tx_enable">> \o fills \o <<"irq_tx_disable">>
        /\ acm_last'.written = took
        /\ acm_fifo'[index] = acm_fifo[index] \o SubSeq(buf, 1, took)
        /\ \A j \in AcmIndex \ {index} : acm_fifo'[j] = acm_fifo[j] /\ acm_irq_tx'[j] = acm_irq_tx[j]
        /\ acm_irq_tx'[index] = FALSE

\* C21 as stated: with DTR asserted every call makes exactly one fill attempt.
C21_AsStated ==
    [][\A index \in AcmIndex, buf \in AcmBufs :
          acm_write(index, buf) =>
              IF acm_line[index].res # 0 \/ acm_line[index].ctrl = 0
              THEN AcmGated(index)
              ELSE AcmSent(index, buf, <<"fifo_fill">>)
      ]_vars

\* C21: acm_write is always ready to run and return; without DTR (query
\* failed or DTR clear, which is when acm_has_dtr answers 0) it makes no
\* driver call but the query and leaves FIFO and transmit interrupt as they
\* were; with DTR it enables the interrupt, makes one fill attempt for the
\* whole buffer when len is not 0 and none when len is 0, keeps in the FIFO
\* exactly the front of the buffer that fitted, drops the rest, and leaves
\* the interrupt disabled.
C21_AcmWrite ==
    /\ [](\A index \in AcmIndex :
            /\ \A buf \in AcmBufs : ENABLED acm_write(index, buf)
            /\ acm_has_dtr(index) = 0 <=> (acm_line[index].res # 0 \/ acm_line[index].ctrl = 0))
    /\ [][\A index \in AcmIndex, buf \in AcmBufs :
            acm_write(index, buf) =>
                IF acm_line[index].res # 0 \/ acm_line[index].ctrl = 0
                THEN AcmGated(index)
                ELSE AcmSent(index, buf, IF Len(buf) = 0 THEN <<>> ELSE <<"fifo_fill">>)
        ]_vars

\* A two-byte write found room for one byte: one fill, one byte dropped.
C21_Witness ==
    /\ acm_last.op = "acm_write"
    /\ acm_last.calls = <<"line_ctrl_get", "irq_tx_enable", "fifo_fill", "irq_tx_disable">>
    /\ acm_last.len = 2
    /\ acm_last.written = 1
    /\ Len(acm_fifo[acm_last.index]) = AcmCap
    /\ ~acm_irq_tx[acm_last.index]

====
